---------------------------- MODULE Spec2Model ----------------------------
(***************************************************************************)
(* Verification model of hab_data_api: the TTL cache decorator             *)
(* (services/cache.py) and the tariff period resolution of the price       *)
(* service (services/price.py) with the aggregation adapter it reads       *)
(* (services/influx.py).                                                   *)
(***************************************************************************)
EXTENDS Integers, Sequences, FiniteSets, TLC

VARIABLES
    CACHE,      \* services/cache.py CACHE: key -> <<timestamp, value>>
    now,        \* wall clock, seconds since midnight of the first day
    last,       \* record of the latest cache_for wrapper call (or clear_cache)
    prev,       \* record of the operation before `last`
    nCalls,     \* number of wrapper calls made so far (bounded)
    flushedAt,  \* time of the most recent clear_cache (NoTime: none yet)
    db,         \* stored meter series of the time-series database
    request,    \* latest PriceService.get_aggregated_price request
    response,   \* what that request did: calls made, outcome, result
    market,     \* what the market-price and invoice-peak queries return
    row,        \* the row handed to calculate_price, with its calculator
    breakdown,  \* what calculate_price returned for it
    grid,       \* the days whose points are in persist.belpex_grid_prices
    today,      \* datetime.date.today()
    published,  \* the market has published tomorrow's prices
    job,        \* the running (or latest) update_grid_prices run
    prevJob,    \* the run before it
    nRuns,      \* number of runs started so far (bounded)
    dto,        \* the TimeDataInterpolatedRangeDto built from a posted series
    input_df,   \* what its to_df("15min") produced
    simulated   \* the frames handed to simulate_aggregated_price_total

vars == <<CACHE, now, last, prev, nCalls, flushedAt, db, request, response,
          market, row, breakdown, grid, today, published, job, prevJob, nRuns,
          dto, input_df, simulated>>

cacheVars == <<CACHE, now, last, prev, nCalls, flushedAt>>
priceVars == <<db, request, response>>
calcVars == <<market, row, breakdown>>

gridVars == <<grid, today, published, job, prevJob, nRuns>>
dtoVars == <<dto, input_df, simulated>>

\* the variables an action of one part of the program leaves alone
outsideCache == <<priceVars, calcVars, gridVars, dtoVars>>
outsidePrice == <<cacheVars, calcVars, gridVars, dtoVars>>
outsideCalc == <<cacheVars, priceVars, gridVars, dtoVars>>
outsideGrid == <<cacheVars, priceVars, calcVars, dtoVars>>
outsideDto == <<cacheVars, priceVars, calcVars, gridVars>>

\* Python's None as a cached or returned value, and as a timestamp
None == [of |-> "None", ver |-> 0]
NoTime == -1

(***************************************************************************)
(* zlib.crc32 over a byte string.  The 32-bit register is kept as a pair   *)
(* <<high 16 bits, low 16 bits>>.                                          *)
(***************************************************************************)
RECURSIVE BitXor(_, _)
BitXor(a, b) ==
    IF a = 0 THEN b
    ELSE IF b = 0 THEN a
    ELSE 2 * BitXor(a \div 2, b \div 2) + ((a + b) % 2)

\* reflected CRC-32 polynomial 0xEDB88320
PolyHi == 60856
PolyLo == 33568

CrcShift(c) ==
    LET hi == c[1] \div 2
        lo == (c[2] \div 2) + (c[1] % 2) * 32768
    IN  IF c[2] % 2 = 1 THEN <<BitXor(hi, PolyHi), BitXor(lo, PolyLo)>>
                        ELSE <<hi, lo>>

RECURSIVE CrcShiftN(_, _)
CrcShiftN(c, n) == IF n = 0 THEN c ELSE CrcShiftN(CrcShift(c), n - 1)

CrcByte(c, b) == CrcShiftN(<<c[1], BitXor(c[2], b)>>, 8)

\* the register after bytes s[lo..hi], starting from c (the range is halved
\* and c is looked at first, so that the evaluation stays shallow)
RECURSIVE CrcRange(_, _, _, _)
CrcRange(c, s, lo, hi) ==
    IF c[1] < 0 \/ lo > hi THEN c
    ELSE IF lo = hi THEN CrcByte(c, s[lo])
    ELSE LET mid == (lo + hi) \div 2
         IN  CrcRange(CrcRange(c, s, lo, mid), s, mid + 1, hi)

crc32(s) ==
    LET c == CrcRange(<<65535, 65535>>, s, 1, Len(s))
    IN  <<65535 - c[1], 65535 - c[2]>>

(***************************************************************************)
(* str() / repr() of the values that reach the wrapper, as byte strings.   *)
(***************************************************************************)
RECURSIVE DecDigits(_)
DecDigits(n) == IF n < 10 THEN <<48 + n>> ELSE DecDigits(n \div 10) \o <<48 + (n % 10)>>

\* "<services.influx.InfluxService object at 0x7f3c2a1b4d90>"
SelfRepr ==
    <<60, 115, 101, 114, 118, 105, 99, 101, 115, 46, 105, 110, 102, 108, 117,
      120, 46, 73, 110, 102, 108, 117, 120, 83, 101, 114, 118, 105, 99, 101,
      32, 111, 98, 106, 101, 99, 116, 32, 97, 116, 32, 48, 120, 55, 102, 51,
      99, 50, 97, 49, 98, 52, 100, 57, 48, 62>>

\* "datetime.date("
DatePrefix ==
    <<100, 97, 116, 101, 116, 105, 109, 101, 46, 100, 97, 116, 101, 40>>

\* "datetime.datetime("
DatetimePrefix ==
    <<100, 97, 116, 101, 116, 105, 109, 101, 46, 100, 97, 116, 101, 116, 105,
      109, 101, 40>>

CommaSpace == <<44, 32>>

RECURSIVE JoinComma(_)
JoinComma(parts) ==
    IF Len(parts) = 0 THEN <<>>
    ELSE IF Len(parts) = 1 THEN parts[1]
    ELSE parts[1] \o CommaSpace \o JoinComma(Tail(parts))

\* repr of one positional argument
Repr(v) ==
    CASE v.t = "self" -> SelfRepr
      [] v.t = "int"  -> DecDigits(v.v)
      [] v.t = "str"  -> <<39>> \o v.bytes \o <<39>>
      [] v.t = "date" ->
            DatePrefix
            \o JoinComma(<<DecDigits(v.y), DecDigits(v.m), DecDigits(v.d)>>)
            \o <<41>>
      [] v.t = "datetime" ->
            DatetimePrefix
            \o JoinComma(<<DecDigits(v.y), DecDigits(v.m), DecDigits(v.d),
                           DecDigits(v.H), DecDigits(v.M)>>)
            \o (IF v.S = 0 THEN <<>> ELSE CommaSpace \o DecDigits(v.S))
            \o <<41>>

\* str(args) of a tuple: "(a, b)" and "(a,)" for a single element
StrArgs(args) ==
    IF Len(args) = 0 THEN <<40, 41>>
    ELSE IF Len(args) = 1 THEN <<40>> \o Repr(args[1]) \o <<44, 41>>
    ELSE <<40>> \o JoinComma([i \in 1..Len(args) |-> Repr(args[i])]) \o <<41>>

\* str(kwargs) of the empty dict (no caller of the modelled functions passes
\* keyword arguments)
StrKwargs == <<123, 125>>


(***************************************************************************)
(* The memoized functions of InfluxService that the model calls, with the  *)
(* seconds of their cache_for decorator, and the calls made on them.       *)
(***************************************************************************)
FnName(f) ==
    CASE f = "get_last_grid_price" ->
            <<103, 101, 116, 95, 108, 97, 115, 116, 95, 103, 114, 105, 100,
              95, 112, 114, 105, 99, 101>>
      [] f = "get_house_temperature" ->
            <<103, 101, 116, 95, 104, 111, 117, 115, 101, 95, 116, 101, 109,
              112, 101, 114, 97, 116, 117, 114, 101>>
      [] f = "get_invoice_peak" ->
            <<103, 101, 116, 95, 105, 110, 118, 111, 105, 99, 101, 95, 112,
              101, 97, 107>>
      [] f = "get_aggregated_energy_consumption_injection" ->
            <<103, 101, 116, 95, 97, 103, 103, 114, 101, 103,
              97, 116, 101, 100, 95, 101, 110, 101, 114, 103,
              121, 95, 99, 111, 110, 115, 117, 109, 112, 116,
              105, 111, 110, 95, 105, 110, 106, 101, 99, 116,
              105, 111, 110>>

Seconds(f) ==
    CASE f = "get_last_grid_price"   -> 5
      [] f = "get_house_temperature" -> 300
      [] f = "get_invoice_peak"      -> 14400
      [] f = "get_aggregated_energy_consumption_injection" -> 300

\* get_invoice_peak divides by its row count and never returns None; the
\* other two return None when the query has no rows
MayReturnNone(f) == f \in {"get_last_grid_price", "get_house_temperature"}

Self == [t |-> "self"]
IntArg(n) == [t |-> "int", v |-> n]
Datetime(y, m, d, H, M) ==
    [t |-> "datetime", y |-> y, m |-> m, d |-> d, H |-> H, M |-> M, S |-> 0]
DateArg(y, m, d) == [t |-> "date", y |-> y, m |-> m, d |-> d]
\* the interval "15m" of get_15minutely_energy_consumption_injection
Interval15m == [t |-> "str", bytes |-> <<49, 53, 109>>]

\* the calls: function and positional arguments (args[1] is self)
CallDef ==
    [LastGridPrice  |-> [fn |-> "get_last_grid_price", args |-> <<Self>>],
     HouseTempA     |-> [fn |-> "get_house_temperature",
                         args |-> <<Self, Datetime(2026, 11, 12, 18, 19),
                                          Datetime(2026, 11, 12, 20, 41)>>],
     HouseTempB     |-> [fn |-> "get_house_temperature",
                         args |-> <<Self, Datetime(2026, 10, 31, 17, 14),
                                          Datetime(2026, 10, 31, 21, 54)>>],
     InvoicePeakJan |-> [fn |-> "get_invoice_peak",
                         args |-> <<Self, IntArg(2026), IntArg(1)>>],
     HouseTempC     |-> [fn |-> "get_house_temperature",
                         args |-> <<Self, Datetime(2026, 12, 11, 2, 55),
                                          Datetime(2026, 12, 12, 2, 55)>>],
     EnergyStatsA   |-> [fn |-> "get_aggregated_energy_consumption_injection",
                         args |-> <<Self, Interval15m, DateArg(2024, 7, 13),
                                          DateArg(2024, 9, 16)>>],
     EnergyStatsB   |-> [fn |-> "get_aggregated_energy_consumption_injection",
                         args |-> <<Self, Interval15m, DateArg(2024, 7, 13),
                                          DateArg(2024, 9, 17)>>]]

\* the calls made directly on the wrapper; the EnergyStats calls are made by
\* the calculators
Calls == {"LastGridPrice", "HouseTempA", "HouseTempB", "InvoicePeakJan"}

Fn(c) == CallDef[c].fn

\* cache.py lines 10-12: fn.__name__ + str(args) + str(kwargs)
HashBase(c) == FnName(CallDef[c].fn) \o StrArgs(CallDef[c].args) \o StrKwargs

\* cache.py line 13: zlib.crc32(...) & 0xffffffff, computed once per call
KeyTable == [c \in DOMAIN CallDef |-> crc32(HashBase(c))]

fn_hash(c) == KeyTable[c]

(***************************************************************************)
(* cache_for.wrapper and CacheService.clear_cache                          *)
(***************************************************************************)
MaxCalls == 2
MaxVer == 1
MaxDuration == 1

\* the instants (seconds after StartTime) at which the model looks at the
\* clock: around the 5 s and the 300 s expiry of entries stored at 0 or 1,
\* and 15:00:00
Instants == {0, 1, 5, 6, 7, 300, 301, 302}

SecondsPerDay == 24 * 3600
\* add_job(self.clear_cache, 'cron', hour='15', minute='0')
CronSecond == 15 * 3600
\* the model starts five minutes before the daily flush
StartTime == CronSecond - 300

EmptyCache == [k \in {} |-> <<NoTime, None>>]

\* CACHE.get(fn_hash, (None, None))
CacheGet(cache, key) == IF key \in DOMAIN cache THEN cache[key] ELSE <<NoTime, None>>

\* the test of lines 17-18
IsFresh(entry, t, seconds) ==
    /\ entry[1] # NoTime
    /\ entry[2] # None
    /\ entry[1] >= t - seconds

\* CACHE[fn_hash] = (datetime.datetime.now(), result)
CachePut(cache, key, t, result) ==
    [k \in DOMAIN cache \cup {key} |-> IF k = key THEN <<t, result>> ELSE cache[k]]

\* a wrapper that read the clock before it invoked fn
StoreTime_start(start, end) == start

\* line 22: datetime.datetime.now() is evaluated after fn returned at line 21
StoreTime(start, end) == end

\* a wrapper that stored the failed call as a None result
AfterRaise_stored(cache, key, t) == CachePut(cache, key, t, None)

\* fn raised at line 21: line 22 is never reached
AfterRaise(cache, key, t) == cache

\* a clear_cache that rebound a local name and left the module's CACHE alone
clear_cache_local(cache) == cache

\* CACHE.clear()
clear_cache(cache) == EmptyCache

\* line 21 has no try/except: an exception of fn leaves the wrapper as it is
Propagates(fnRaised) == fnRaised

\* what the wrapped function can do when it is invoked for call c: raise, or
\* return a value computed for c from the current content of the database
Value(c, ver) == [of |-> c, ver |-> ver]
FnOutcomes(c) ==
    {[raises |-> TRUE, value |-> None]}
    \cup {[raises |-> FALSE, value |-> Value(c, v)] : v \in 1..MaxVer}
    \cup (IF MayReturnNone(Fn(c)) THEN {[raises |-> FALSE, value |-> None]} ELSE {})

NoOp ==
    [op |-> "none", call |-> "none", key |-> <<0, 0>>, start |-> 0, end |-> 0,
     invoked |-> FALSE, fnRaised |-> FALSE, raised |-> FALSE, value |-> None,
     storedAt |-> NoTime,
     dropped |-> EmptyCache]

\* wrapper(*args, **kwargs) for call c at time `now`; when the wrapped
\* function is invoked it does `out` and takes dt seconds
Call(c, out, dt) ==
    LET key   == fn_hash(c)
        entry == CacheGet(CACHE, key)
        hit   == IsFresh(entry, now, Seconds(Fn(c)))
    IN  /\ nCalls < MaxCalls
        /\ (now + dt) - StartTime \in Instants
        /\ nCalls' = nCalls + 1
        /\ prev' = last
        /\ IF hit
           THEN /\ dt = 0
                /\ out.raises
                /\ CACHE' = CACHE
                /\ now' = now
                /\ last' = [NoOp EXCEPT !.op = "call", !.call = c, !.key = key,
                                        !.start = now, !.end = now,
                                        !.value = entry[2], !.storedAt = entry[1]]
           ELSE /\ now' = now + dt
                /\ IF out.raises
                   THEN /\ CACHE' = AfterRaise(CACHE, key, now + dt)
                        /\ last' = [NoOp EXCEPT !.op = "call", !.call = c, !.key = key,
                                                !.start = now, !.end = now + dt,
                                                !.invoked = TRUE, !.fnRaised = TRUE,
                                                !.raised = Propagates(TRUE)]
                   ELSE /\ CACHE' = CachePut(CACHE, key, StoreTime(now, now + dt),
                                              out.value)
                        /\ last' = [NoOp EXCEPT !.op = "call", !.call = c, !.key = key,
                                                !.start = now, !.end = now + dt,
                                                !.invoked = TRUE, !.value = out.value,
                                                !.storedAt = StoreTime(now, now + dt)]
        /\ UNCHANGED flushedAt
        /\ UNCHANGED outsideCache

\* the scheduler's cron job (hour='15', minute='0') runs clear_cache
ClearCacheJob ==
    /\ now % SecondsPerDay = CronSecond
    /\ ~(last.op = "clear" /\ last.start = now)
    /\ CACHE' = clear_cache(CACHE)
    /\ prev' = last
    /\ last' = [NoOp EXCEPT !.op = "clear", !.start = now, !.end = now,
                            !.dropped = CACHE]
    /\ flushedAt' = now
    /\ UNCHANGED <<now, nCalls>>
    /\ UNCHANGED outsideCache

\* time passes between operations
Tick(t) ==
    /\ StartTime + t > now
    /\ now' = StartTime + t
    /\ UNCHANGED <<CACHE, last, prev, nCalls, flushedAt>>
    /\ UNCHANGED outsideCache

(***************************************************************************)
(* Calendar: a date is its proleptic Gregorian ordinal (date.toordinal()), *)
(* a timestamp is the number of quarter hours since ordinal 0.             *)
(***************************************************************************)
IsLeap(y) == (y % 4 = 0 /\ y % 100 # 0) \/ y % 400 = 0

DaysInMonth(y, m) ==
    CASE m \in {1, 3, 5, 7, 8, 10, 12} -> 31
      [] m \in {4, 6, 9, 11} -> 30
      [] OTHER -> IF IsLeap(y) THEN 29 ELSE 28

RECURSIVE DaysBeforeMonth(_, _)
DaysBeforeMonth(y, m) ==
    IF m = 1 THEN 0 ELSE DaysBeforeMonth(y, m - 1) + DaysInMonth(y, m - 1)

DaysBeforeYear(y) ==
    LET p == y - 1 IN p * 365 + p \div 4 - p \div 100 + p \div 400

Date(y, m, d) == DaysBeforeYear(y) + DaysBeforeMonth(y, m) + d

Years == 2022..2028

YearOf(n) == CHOOSE y \in Years : DaysBeforeYear(y) < n /\ n <= DaysBeforeYear(y + 1)

MonthOf(n) ==
    LET y == YearOf(n)
    IN  CHOOSE m \in 1..12 : Date(y, m, 1) <= n /\ n < Date(y, m, 1) + DaysInMonth(y, m)

MonthStart(n) == Date(YearOf(n), MonthOf(n), 1)

QuartersPerDay == 24 * 4

Stamp(y, m, d, q) == Date(y, m, d) * QuartersPerDay + q

DayOf(t) == t \div QuartersPerDay

Min(a, b) == IF a <= b THEN a ELSE b
Max(a, b) == IF a >= b THEN a ELSE b

(***************************************************************************)
(* InfluxService.get_aggregated_energy_consumption_injection               *)
(***************************************************************************)
AllSeries ==
    {"consumption_rate1", "consumption_rate2", "injection_rate1", "injection_rate2"}

\* a DataFrame is its index and its columns; None and a raised exception
\* are the two other things a call can end with
NoneFrame == [kind |-> "None", index |-> {}, cols |-> {}]
Raised    == [kind |-> "raise", index |-> {}, cols |-> {}]
Frame(index, cols) == [kind |-> "frame", index |-> index, cols |-> cols]

\* the points of one series with time >= start_date and time < end_date
Points(data, series, start_date, end_date) ==
    {t \in data[series] :
        start_date * QuartersPerDay <= t /\ t < end_date * QuartersPerDay}

\* pd.merge(df, df_temp, left_index=True, right_index=True)
Merge(df, df_temp) ==
    IF df.kind # "frame" THEN Raised
    ELSE Frame(df.index \cap df_temp.index, df.cols \cup df_temp.cols)

get_aggregated_energy_consumption_injection(data, start_date, end_date) ==
    LET r1 == Points(data, "consumption_rate1", start_date, end_date)
        r2 == Points(data, "consumption_rate2", start_date, end_date)
        j1 == Points(data, "injection_rate1", start_date, end_date)
        j2 == Points(data, "injection_rate2", start_date, end_date)
        df1 == IF r1 # {} THEN Frame(r1, {"consumption_rate1"}) ELSE NoneFrame
        df2 == IF r2 # {} THEN Frame(r2, {"consumption_rate2"}) ELSE NoneFrame
        \* lines 652-655: `df or df_temp` takes the truth value of a DataFrame
        \* when df is one, which raises
        dfc == IF df1.kind = "None" \/ df2.kind = "None"
               THEN (IF df1.kind = "None" THEN df2 ELSE Raised)
               ELSE Merge(df1, df2)
        dfi == IF dfc.kind = "raise" THEN Raised
               ELSE IF j1 # {} THEN Merge(dfc, Frame(j1, {"injection_rate1"}))
               ELSE dfc
        dfj == IF dfi.kind = "raise" THEN Raised
               ELSE IF j2 # {} THEN Merge(dfi, Frame(j2, {"injection_rate2"}))
               ELSE dfi
    IN  dfj

(***************************************************************************)
(* AbstractPriceCalculation.get_aggregated_price                           *)
(***************************************************************************)
Freqs == {"MS", "1D", "1h"}

\* a grouper that took every freq for the hourly one
Bin_hourly(freq, t) == t - (t % 4)

\* the bin of pd.Grouper(freq=freq) a timestamp falls in
Bin(freq, t) ==
    CASE freq = "1h" -> t - (t % 4)
      [] freq = "1D" -> DayOf(t) * QuartersPerDay
      [] freq = "MS" -> MonthStart(DayOf(t)) * QuartersPerDay

\* calculate_price(df_row): the breakdown of one row under one calculator,
\* kept symbolic (which calculator priced which row)
calculate_price(calculation, t) == [calculation |-> calculation, row |-> t]

SetMin(S) == CHOOSE x \in S : \A y \in S : x <= y
SetMax(S) == CHOOSE x \in S : \A y \in S : x >= y

RECURSIVE SortedSeq(_)
SortedSeq(S) ==
    IF S = {} THEN <<>> ELSE LET x == SetMin(S) IN <<x>> \o SortedSeq(S \ {x})

\* what a calculator's get_aggregated_price ends with: None, an exception,
\* or a frame on the regular grid first..last of which `buckets` lists the
\* bins that hold rows (the bins between them sum to zero)
NoPrice    == [kind |-> "None", first |-> 0, last |-> 0, buckets |-> <<>>]
PriceError == [kind |-> "raise", first |-> 0, last |-> 0, buckets |-> <<>>]
EmptyPrice == [kind |-> "frame", first |-> 0, last |-> 0, buckets |-> <<>>]

\* energy_stats.apply(self.calculate_price, axis=1).groupby(pd.Grouper(freq)).agg('sum')
GroupSum(calculation, index, freq) ==
    LET bins == {Bin(freq, t) : t \in index}
        order == SortedSeq(bins)
    IN  [kind |-> "frame", first |-> SetMin(bins), last |-> SetMax(bins),
         buckets |-> [i \in 1..Len(order) |->
                        [timestamp |-> order[i],
                         sum |-> {calculate_price(calculation, t) :
                                    t \in {u \in index : Bin(freq, u) = order[i]}}]]]

\* lines 175-179 on what the adapter call came back with
PriceOfStats(calculation, energy_stats, freq) ==
    CASE energy_stats.kind = "raise" -> PriceError
      [] energy_stats.kind = "None" -> NoPrice
      [] energy_stats.index = {} -> EmptyPrice
      \* calculate_price reads the four columns of the row
      [] energy_stats.cols # AllSeries -> PriceError
      [] OTHER -> GroupSum(calculation, energy_stats.index, freq)

calc_get_aggregated_price(calculation, data, start_date, end_date, freq) ==
    PriceOfStats(calculation,
                 get_aggregated_energy_consumption_injection(data, start_date, end_date),
                 freq)

(***************************************************************************)
(* PriceService and AlternativePriceService: the registry                  *)
(* self.price_calculation and get_aggregated_price                         *)
(***************************************************************************)
Period(calc_start, calc_end, calculation) ==
    [calc_start |-> calc_start, calc_end |-> calc_end, calculation |-> calculation]

\* a registry whose tariff of 2026 changes one day later than the first
\* period of the year ends
StandardCalculations_gap ==
    [year \in {2024, 2025, 2026} |->
        CASE year = 2024 ->
               <<Period(Date(2024, 1, 1), Date(2025, 1, 1), "PriceCalculationWaseWind2024")>>
          [] year = 2025 ->
               <<Period(Date(2025, 1, 1), Date(2026, 1, 1), "PriceCalculationWaseWind2025")>>
          [] year = 2026 ->
               <<Period(Date(2026, 1, 1), Date(2026, 2, 1), "PriceCalculationWaseWind2026"),
                 Period(Date(2026, 2, 2), Date(2027, 1, 1), "PriceCalculationWaseWindDynamic2026")>>]

\* PriceService.__init__: year -> periods in insertion order
StandardCalculations ==
    [year \in {2024, 2025, 2026} |->
        CASE year = 2024 ->
               <<Period(Date(2024, 1, 1), Date(2025, 1, 1), "PriceCalculationWaseWind2024")>>
          [] year = 2025 ->
               <<Period(Date(2025, 1, 1), Date(2026, 1, 1), "PriceCalculationWaseWind2025")>>
          [] year = 2026 ->
               <<Period(Date(2026, 1, 1), Date(2026, 2, 1), "PriceCalculationWaseWind2026"),
                 Period(Date(2026, 2, 1), Date(2027, 1, 1), "PriceCalculationWaseWindDynamic2026")>>]

\* AlternativePriceService.__init__: the second assignment is the one left
AlternativeCalculations ==
    [year \in {2025, 2026} |->
        CASE year = 2025 ->
               <<Period(Date(2025, 1, 1), Date(2026, 1, 1), "PriceCalculationWaseWind2026")>>
          [] year = 2026 ->
               <<Period(Date(2026, 1, 1), Date(2026, 2, 1), "PriceCalculationWaseWindDynamic2026"),
                 Period(Date(2026, 2, 1), Date(2027, 1, 1), "PriceCalculationWaseWind2026")>>]

Services == {"price", "alternative_price"}

price_calculation(service) ==
    IF service = "price" THEN StandardCalculations ELSE AlternativeCalculations

\* a lookup that fell back on the last registered year
YearCalculations_latest(service, year) ==
    LET registry == price_calculation(service)
    IN  IF year \in DOMAIN registry THEN registry[year]
        ELSE registry[CHOOSE y \in DOMAIN registry : \A z \in DOMAIN registry : z <= y]

\* self.price_calculation.get(year, {})
YearCalculations(service, year) ==
    LET registry == price_calculation(service)
    IN  IF year \in DOMAIN registry THEN registry[year] ELSE <<>>

IntersectionStart(start_date, calc_start) == Max(start_date, calc_start)

\* a sub-range that ran to the end of the request
IntersectionEnd_unclipped(end_date, calc_end) == end_date

IntersectionEnd(end_date, calc_end) == Min(end_date, calc_end)

\* `if intersection_start > intersection_end: continue`
NoOverlap(intersection_start, intersection_end) ==
    intersection_start > intersection_end

\* the bin after b on the grid of freq
NextBin(freq, b) ==
    CASE freq = "1h" -> b + 4
      [] freq = "1D" -> b + QuartersPerDay
      [] freq = "MS" ->
            LET day == DayOf(b)
            IN  (day + DaysInMonth(YearOf(day), MonthOf(day))) * QuartersPerDay

Segment(price) == [first |-> price.first, last |-> price.last, buckets |-> price.buckets]

\* pd.concat([price, result]): the new rows put first
Concat_prepend(result, price, freq) == <<Segment(price)>> \o result

\* pd.concat([result, price]): the rows of price after the rows of result.
\* The concatenated frame is kept as its maximal runs of consecutive bins.
Concat(result, price, freq) ==
    IF result # <<>> /\ NextBin(freq, result[Len(result)].last) = price.first
    THEN [result EXCEPT ![Len(result)] =
            [first |-> @.first, last |-> price.last,
             buckets |-> @.buckets \o price.buckets]]
    ELSE Append(result, Segment(price))

Running == [outcome |-> "running", year |-> 0, calls |-> <<>>, result |-> <<>>]

\* the inner loop of get_aggregated_price over the periods of one year
RECURSIVE PeriodLoop(_, _, _, _, _, _, _)
PeriodLoop(periods, i, data, start_date, end_date, freq, acc) ==
    IF i > Len(periods) THEN acc
    ELSE
      LET p == periods[i]
          intersection_start == IntersectionStart(start_date, p.calc_start)
          intersection_end == IntersectionEnd(end_date, p.calc_end)
      IN  IF NoOverlap(intersection_start, intersection_end)
          THEN PeriodLoop(periods, i + 1, data, start_date, end_date, freq, acc)
          ELSE
            LET price == calc_get_aggregated_price(p.calculation, data,
                            intersection_start, intersection_end, freq)
                call == [period |-> p, start_date |-> intersection_start,
                         end_date |-> intersection_end, price |-> price]
            IN  IF price.kind = "raise"
                THEN [acc EXCEPT !.outcome = "raise", !.calls = Append(@, call),
                                 !.result = <<>>]
                ELSE PeriodLoop(periods, i + 1, data, start_date, end_date, freq,
                        [acc EXCEPT !.calls = Append(@, call),
                                    !.result =
                                        IF price.kind = "frame" /\ price.buckets # <<>>
                                        THEN Concat(@, price, freq) ELSE @])

\* the outer loop over years_to_calculate and the return
RECURSIVE YearLoop(_, _, _, _, _, _, _)
YearLoop(service, year, data, start_date, end_date, freq, acc) ==
    IF acc.outcome # "running" THEN acc
    ELSE IF year > YearOf(end_date)
    THEN [acc EXCEPT !.outcome = IF acc.result = <<>> THEN "None" ELSE "frame"]
    ELSE
      LET year_calculations == YearCalculations(service, year)
      IN  IF year_calculations = <<>>
          THEN [acc EXCEPT !.outcome = "ValueError", !.year = year, !.result = <<>>]
          ELSE YearLoop(service, year + 1, data, start_date, end_date, freq,
                  PeriodLoop(year_calculations, 1, data, start_date, end_date, freq, acc))

get_aggregated_price(service, data, start_date, end_date, freq) ==
    YearLoop(service, YearOf(start_date), data, start_date, end_date, freq, Running)

(***************************************************************************)
(* The price requests made on a database of quarter-hourly readings        *)
(***************************************************************************)
MaxRows == 2

\* request dates around the boundaries of the registered periods
TestDates ==
    {Date(2024, 1, 1), Date(2025, 1, 1), Date(2025, 12, 31),
     Date(2026, 1, 1), Date(2026, 1, 31), Date(2026, 2, 1), Date(2026, 2, 2),
     Date(2026, 12, 31), Date(2027, 1, 1), Date(2027, 1, 2)}

\* timestamps of readings around the boundaries
TestStamps ==
    {Stamp(2025, 12, 31, 95), Stamp(2026, 1, 1, 0), Stamp(2026, 1, 31, 95),
     Stamp(2026, 2, 1, 0), Stamp(2026, 2, 1, 5)}

\* the series that have a point at one timestamp
Shapes ==
    {{}, AllSeries, {"consumption_rate1"}, {"consumption_rate2"}, {"injection_rate1"}}

EmptyDb == [series \in AllSeries |-> {}]

Databases ==
    {[series \in AllSeries |-> {t \in TestStamps : series \in layout[t]}] :
        layout \in {l \in [TestStamps -> Shapes] :
                        Cardinality({t \in TestStamps : l[t] # {}}) <= MaxRows}}

NoRequest == [service |-> "", start_date |-> 0, end_date |-> 0, freq |-> ""]
NoResponse == [outcome |-> "", year |-> 0, calls |-> <<>>, result |-> <<>>]

\* one call of get_monthly_price / get_daily_price / get_hourly_price
Request(service, start_date, end_date, freq) ==
    /\ request = NoRequest
    /\ start_date < end_date
    /\ request' = [service |-> service, start_date |-> start_date,
                   end_date |-> end_date, freq |-> freq]
    /\ response' = get_aggregated_price(service, db, start_date, end_date, freq)
    /\ UNCHANGED <<db, outsidePrice>>

\* the caller has taken the response (or the exception)
Return ==
    /\ request # NoRequest
    /\ request' = NoRequest
    /\ response' = NoResponse
    /\ UNCHANGED <<db, outsidePrice>>

(***************************************************************************)
(* A price request with the adapter behind its cache_for wrapper.  The     *)
(* requests lie inside 2024, a year with one period, so that the request   *)
(* makes one calculator call and the calculator one adapter call.          *)
(***************************************************************************)
CachedRanges == {"EnergyStatsA", "EnergyStatsB"}

DateOf(arg) == Date(arg.y, arg.m, arg.d)
RangeStart(c) == DateOf(CallDef[c].args[3])
RangeEnd(c) == DateOf(CallDef[c].args[4])

\* no reading at all, or one reading of the four series in the two ranges
CachedDatabases == {EmptyDb, [series \in AllSeries |-> {Stamp(2024, 8, 1, 0)}]}

\* a DataFrame, as against what another function stored
IsFrame(value) == "kind" \in DOMAIN value

\* what get_aggregated_price returns after its one calculator call
ResponseOf(period, start_date, end_date, price, freq) ==
    LET call == [period |-> period, start_date |-> start_date,
                 end_date |-> end_date, price |-> price]
        result == IF price.kind = "frame" /\ price.buckets # <<>>
                  THEN Concat(<<>>, price, freq) ELSE <<>>
    IN  [outcome |-> IF price.kind = "raise" THEN "raise"
                     ELSE IF result = <<>> THEN "None" ELSE "frame",
         year |-> 0, calls |-> <<call>>, result |-> result]

\* get_aggregated_price(start_date, end_date, freq) of the price service for
\* the range of adapter call c
CachedRequest(c, freq) ==
    LET start_date == RangeStart(c)
        end_date == RangeEnd(c)
        period == YearCalculations("price", YearOf(start_date))[1]
        key == fn_hash(c)
        entry == CacheGet(CACHE, key)
        hit == IsFresh(entry, now, Seconds(Fn(c)))
        df == get_aggregated_energy_consumption_injection(db, start_date, end_date)
        \* what the wrapper hands to the calculator
        energy_stats == IF hit THEN entry[2]
                        ELSE IF df.kind = "None" THEN None ELSE df
        \* a value without apply() raises AttributeError at line 176
        price == IF energy_stats = None THEN NoPrice
                 ELSE IF IsFrame(energy_stats)
                 THEN PriceOfStats(period.calculation, energy_stats, freq)
                 ELSE PriceError
        this == [service |-> "price", start_date |-> start_date,
                 end_date |-> end_date, freq |-> freq]
    IN  /\ request \in {NoRequest, this}
        /\ request' = this
        /\ response' = ResponseOf(period, start_date, end_date, price, freq)
        /\ CACHE' = IF hit \/ df.kind = "raise" THEN CACHE
                    ELSE CachePut(CACHE, key, now, energy_stats)
        /\ prev' = last
        /\ last' = [NoOp EXCEPT !.op = "call", !.call = c, !.key = key,
                                !.start = now, !.end = now,
                                !.invoked = ~hit,
                                !.fnRaised = (~hit /\ df.kind = "raise"),
                                !.raised = (~hit /\ df.kind = "raise"),
                                !.storedAt = IF hit THEN entry[1] ELSE now]
        /\ UNCHANGED <<now, nCalls, flushedAt, db, calcVars, gridVars, dtoVars>>

(***************************************************************************)
(* AbstractPriceCalculation.calculate_price and the four calculators.      *)
(* Money is counted in micro-euro and energy in Wh; a division rounds      *)
(* down.  The day-ahead price is a whole number in the unit of the market  *)
(* feed.                                                                   *)
(***************************************************************************)
Calculations ==
    {"PriceCalculationWaseWind2024", "PriceCalculationWaseWind2025",
     "PriceCalculationWaseWind2026", "PriceCalculationWaseWindDynamic2026"}

\* a value a query returned, or None
Known(v) == [known |-> TRUE, value |-> v]
Unknown == [known |-> FALSE, value |-> 0]

\* get_monthly_belpex(timestamp) / get_belpex(timestamp) of the calculator
get_monthly_belpex(mkt, t) == mkt.monthly_belpex
get_belpex(mkt, t) == mkt.belpex

\* a*x + b on a day-ahead price that may be None (TypeError)
Affine(a, belpex, b) ==
    IF belpex.known THEN Known(a * belpex.value + b) ELSE Unknown

get_consumption_rate1_price(calculation, mkt, t) ==
    CASE calculation = "PriceCalculationWaseWind2024" ->
            Affine(5750, get_monthly_belpex(mkt, t), 74600)
      [] calculation = "PriceCalculationWaseWind2025" ->
            Affine(5750, get_monthly_belpex(mkt, t), 71600)
      [] calculation = "PriceCalculationWaseWind2026" ->
            Affine(6900, get_monthly_belpex(mkt, t), 77200)
      [] calculation = "PriceCalculationWaseWindDynamic2026" ->
            Affine(5300, get_belpex(mkt, t), 77200)

get_consumption_rate2_price(calculation, mkt, t) ==
    CASE calculation = "PriceCalculationWaseWind2024" ->
            Affine(5000, get_monthly_belpex(mkt, t), 66300)
      [] calculation = "PriceCalculationWaseWind2025" ->
            Affine(5000, get_monthly_belpex(mkt, t), 63600)
      [] OTHER -> get_consumption_rate1_price(calculation, mkt, t)

get_injection_rate1_price(calculation, mkt, t) ==
    CASE calculation = "PriceCalculationWaseWind2024" ->
            Affine(8000, get_monthly_belpex(mkt, t), -6000)
      [] calculation = "PriceCalculationWaseWind2025" ->
            Affine(7000, get_monthly_belpex(mkt, t), -10000)
      [] OTHER -> Known(20000)

get_injection_rate2_price(calculation, mkt, t) ==
    CASE calculation = "PriceCalculationWaseWind2024" ->
            Affine(6000, get_monthly_belpex(mkt, t), -6000)
      [] calculation = "PriceCalculationWaseWind2025" ->
            Affine(5000, get_monthly_belpex(mkt, t), -10000)
      [] OTHER -> get_injection_rate1_price(calculation, mkt, t)

get_subscription_price(calculation) ==
    IF calculation = "PriceCalculationWaseWind2024" THEN 60 * 1000000
    ELSE 65 * 1000000

get_eneryfund_price(calculation) == 0 * 1000000

get_distribution_price_per_kW_peak(calculation) ==
    CASE calculation = "PriceCalculationWaseWind2024" -> 37150000
      [] calculation = "PriceCalculationWaseWind2025" -> 51990000
      [] OTHER -> 50123981 + (50123981 * 6) \div 100

\* in micro-euro per kWh; the source's terms are in tenths of a micro-euro
get_distribution_price_per_kWh(calculation) ==
    CASE calculation = "PriceCalculationWaseWind2024" ->
            (((98665 + 229011 + 10861 + 43571 + 494061) * 106) \div 100
                + 156670) \div 10
      [] calculation = "PriceCalculationWaseWind2025" ->
            (561000 + 157000 + 523000) \div 10
      [] OTHER ->
            ((248638 * 106) \div 100 + (236385 * 106) \div 100
                + (13038 * 106) \div 100 + 146000 + 503288 + 20417) \div 10

get_distribution_price_fixed(calculation) ==
    CASE calculation = "PriceCalculationWaseWind2024" -> 15090000 \div 12
      [] calculation = "PriceCalculationWaseWind2025" -> 18520000 \div 12
      [] OTHER -> 18921000 \div 12

\* max(r['peak'], 2.5), in quarter kW
MinimumPeak == 10

\* the months since year 0, to subtract relativedelta(months=11)
MonthIndex(year, month) == year * 12 + (month - 1)

\* the rows of the query: one for each month with readings from
\* period_start up to period_end
PeakRows(mkt, year, month) ==
    {m \in DOMAIN mkt.monthly_peak :
        /\ mkt.monthly_peak[m].known
        /\ MonthIndex(year, month) - 11 <= m
        /\ m < MonthIndex(year, month) + 1}

RECURSIVE SumOfPeaks(_, _)
SumOfPeaks(mkt, rows) ==
    IF rows = {} THEN 0
    ELSE LET m == SetMin(rows)
         IN  Max(mkt.monthly_peak[m].value, MinimumPeak)
             + SumOfPeaks(mkt, rows \ {m})

\* the largest of the monthly peaks in place of their mean
get_invoice_peak_max(mkt, year, month) ==
    LET rows == PeakRows(mkt, year, month)
    IN  IF rows = {} THEN Unknown
        ELSE Known(SetMax({Max(mkt.monthly_peak[m].value, MinimumPeak) :
                              m \in rows}))

\* result_sum / result_count; without a row the division raises
\* (ZeroDivisionError), which Unknown stands for
get_invoice_peak(mkt, year, month) ==
    LET rows == PeakRows(mkt, year, month)
        result_sum == SumOfPeaks(mkt, rows)
        result_count == Cardinality(rows)
    IN  IF result_count = 0 THEN Unknown
        ELSE Known(result_sum \div result_count)

\* the fields of a row, in Wh
Row(calculation, timestamp, c1, c2, i1, i2) ==
    [calculation |-> calculation, timestamp |-> timestamp,
     consumption_rate1 |-> c1, consumption_rate2 |-> c2,
     injection_rate1 |-> i1, injection_rate2 |-> i2]

\* price per kWh times Wh
Times(price, wh) == (price * wh) \div 1000

Series(fixed, peak, distribution, consumption, injection, total) ==
    [kind |-> "Series", fixed |-> fixed, peak |-> peak,
     distribution |-> distribution, consumption |-> consumption,
     injection |-> injection, total |-> total]

\* a None in the arithmetic (TypeError) or no month of peaks
\* (ZeroDivisionError)
CalcRaised == [kind |-> "raise", fixed |-> 0, peak |-> 0, distribution |-> 0,
               consumption |-> 0, injection |-> 0, total |-> 0]

\* the sign under which the credit for injected energy is stored
StoredInjection(injection_price) == -injection_price

\* a total that left the peak component out
Total_nopeak(fixed, peak, distribution, consumption, injection_price) ==
    fixed + distribution + consumption - injection_price

Total(fixed, peak, distribution, consumption, injection_price) ==
    fixed + peak + distribution + consumption - injection_price

PriceBreakdown(df_row, mkt) ==
    LET calculation == df_row.calculation
        timestamp == df_row.timestamp
        year == YearOf(DayOf(timestamp))
        month == MonthOf(DayOf(timestamp))
        quarter_hours_in_year ==
            365 * 24 * 4 + (IF IsLeap(year) THEN 24 * 4 ELSE 0)
        quarter_hours_in_month == DaysInMonth(year, month) * 24 * 4
        fixed_component ==
            get_subscription_price(calculation) \div quarter_hours_in_year
            + get_eneryfund_price(calculation) \div quarter_hours_in_year
            + get_distribution_price_fixed(calculation) \div quarter_hours_in_month
        invoice_peak == get_invoice_peak(mkt, year, month)
        \* the peak is counted in quarter kW
        distrib_peak_component ==
            (get_distribution_price_per_kW_peak(calculation) * invoice_peak.value)
                \div (4 * quarter_hours_in_year)
        distrib_dynamic_component ==
            Times(get_distribution_price_per_kWh(calculation),
                  df_row.consumption_rate1 + df_row.consumption_rate2)
        c1 == get_consumption_rate1_price(calculation, mkt, timestamp)
        c2 == get_consumption_rate2_price(calculation, mkt, timestamp)
        i1 == get_injection_rate1_price(calculation, mkt, timestamp)
        i2 == get_injection_rate2_price(calculation, mkt, timestamp)
        consumption_price ==
            Times(c1.value, df_row.consumption_rate1)
            + Times(c2.value, df_row.consumption_rate2)
        injection_price ==
            Times(i1.value, df_row.injection_rate1)
            + Times(i2.value, df_row.injection_rate2)
        total == Total(fixed_component, distrib_peak_component,
                       distrib_dynamic_component, consumption_price, injection_price)
    IN  IF ~invoice_peak.known \/ ~c1.known \/ ~c2.known \/ ~i1.known \/ ~i2.known
        THEN CalcRaised
        ELSE Series(fixed_component, distrib_peak_component,
                    distrib_dynamic_component, consumption_price,
                    StoredInjection(injection_price), total)

\* day-ahead prices (negative ones occur)
BelpexValues == {-20, 0, 80}

\* monthly peaks in quarter kW (1 kW and 6 kW), and the months that can have
\* one: January 2025, June 2025 and February 2026
PeakValues == {4, 24}
PeakMonths == {MonthIndex(2025, 1), MonthIndex(2025, 6), MonthIndex(2026, 2)}

Markets ==
    [monthly_belpex : {Unknown} \cup {Known(v) : v \in BelpexValues},
     belpex : {Unknown} \cup {Known(v) : v \in BelpexValues},
     monthly_peak : [PeakMonths -> {Unknown} \cup {Known(v) : v \in PeakValues}]]

\* a leap February, a December and a February after it
RowStamps == {Stamp(2024, 2, 29, 95), Stamp(2025, 12, 31, 95), Stamp(2026, 2, 1, 0)}

EnergyValues == {0, 250}

NoRow == Row("", 0, 0, 0, 0, 0)
NoBreakdown == [kind |-> "", fixed |-> 0, peak |-> 0, distribution |-> 0,
                consumption |-> 0, injection |-> 0, total |-> 0]
NoMarket == [monthly_belpex |-> Unknown, belpex |-> Unknown,
             monthly_peak |-> [m \in PeakMonths |-> Unknown]]

\* energy_stats.apply(self.calculate_price, axis=1) reaching one row
CalculatePrice(df_row) ==
    /\ row = NoRow
    /\ row' = df_row
    /\ breakdown' = PriceBreakdown(df_row, market)
    /\ UNCHANGED <<market, outsideCalc>>

\* on to the next row
NextRow ==
    /\ row # NoRow
    /\ row' = NoRow
    /\ breakdown' = NoBreakdown
    /\ UNCHANGED <<market, outsideCalc>>

(***************************************************************************)
(* BelpexService.update_grid_prices, the hourly job that fetches the       *)
(* day-ahead prices one day at a time.  A day's points all carry that      *)
(* day's date; a write that raises has written nothing.                    *)
(***************************************************************************)
MaxRuns == 2
MaxGap == 3

BackfillDays == 40

FirstDay == Date(2026, 3, 1)

\* the calendar of the model ends the day after
LastDay == FirstDay + 1

\* get_last_grid_price().timestamp.date(), or None on an empty table.  The
\* runs are an hour apart, so the 5 second cache entry of an earlier run
\* has expired when the next run reads.
get_last_grid_price(stored) ==
    IF stored = {} THEN Unknown ELSE Known(SetMax(stored))

\* lines 31-35
DateFrom(last_grid_price, day) ==
    IF ~last_grid_price.known THEN day - BackfillDays
    ELSE last_grid_price.value + 1

\* a date_to that stopped at today
DateTo_today(day) == day

\* line 37
DateTo(day) == day + 1

\* the points get_grid_prices(day) returns: none for a day not yet published
HasPrices(day) == day <= today \/ (day = today + 1 /\ published)

\* save_grid_prices(data)
save_grid_prices(stored, day) ==
    IF HasPrices(day) THEN stored \cup {day} ELSE stored

\* a failed day that was marked as fetched all the same
AfterFailure_marked(stored, day) == stored \cup {day}

\* get_grid_prices or save_grid_prices raised for `day`
AfterFailure(stored, day) == stored

NoJob == [pc |-> "idle", last_grid_price |-> Unknown, started |-> 0,
          date_from |-> 0, date_to |-> 0, date_to_fetch |-> 0,
          requested |-> <<>>, saved |-> <<>>, failed_at |-> 0]

\* the scheduler starts update_grid_prices; it runs to its first await
StartRun ==
    /\ job.pc \in {"idle", "done", "failed"}
    /\ nRuns < MaxRuns
    /\ LET last_grid_price == get_last_grid_price(grid)
           date_from == DateFrom(last_grid_price, today)
           date_to == DateTo(today)
       IN  job' = [pc |-> IF date_from <= date_to THEN "fetch" ELSE "done",
                   last_grid_price |-> last_grid_price, started |-> today,
                   date_from |-> date_from, date_to |-> date_to,
                   date_to_fetch |-> date_from,
                   requested |-> IF date_from <= date_to THEN <<date_from>> ELSE <<>>,
                   saved |-> <<>>, failed_at |-> 0]
    /\ prevJob' = job
    /\ nRuns' = nRuns + 1
    /\ UNCHANGED <<grid, today, published, outsideGrid>>

\* the awaited get_grid_prices returns; the run saves the day and goes on
\* to its next await, or ends
Fetched ==
    /\ job.pc = "fetch"
    /\ grid' = save_grid_prices(grid, job.date_to_fetch)
    /\ LET next == job.date_to_fetch + 1
       IN  job' = [job EXCEPT
                    !.saved = Append(@, job.date_to_fetch),
                    !.date_to_fetch = next,
                    !.requested = IF next <= job.date_to THEN Append(@, next) ELSE @,
                    !.pc = IF next <= job.date_to THEN "fetch" ELSE "done"]
    /\ UNCHANGED <<today, published, prevJob, nRuns, outsideGrid>>

\* get_grid_prices or save_grid_prices raises: the exception ends the run
Failed ==
    /\ job.pc = "fetch"
    /\ grid' = AfterFailure(grid, job.date_to_fetch)
    /\ job' = [job EXCEPT !.pc = "failed", !.failed_at = job.date_to_fetch]
    /\ UNCHANGED <<today, published, prevJob, nRuns, outsideGrid>>

Midnight ==
    /\ today < LastDay
    /\ today' = today + 1
    /\ published' = FALSE
    /\ UNCHANGED <<grid, job, prevJob, nRuns, outsideGrid>>

Publish ==
    /\ ~published
    /\ published' = TRUE
    /\ UNCHANGED <<grid, today, job, prevJob, nRuns, outsideGrid>>

(***************************************************************************)
(* TimeDataInterpolatedRangeDto.to_df on the series the simulate handlers  *)
(* build from a posted list.  A timestamp is a number of minutes; a frame  *)
(* is its index with its "value" column (the "unit" column is the same     *)
(* string in every row).  A division of the interpolation rounds down.     *)
(***************************************************************************)
MaxSamples == 2

QuarterHour == 15

\* timestamp.replace(minute=math.floor(timestamp.minute / 15) * 15, second=0)
FloorTo(freq, timestamp) == (timestamp \div freq) * freq

TimeDataDto(timestamp, value) == [timestamp |-> timestamp, value |-> value]

\* t.get("timestamp", None) is not None
HasTimestamp(t) == t.timestamp # NoTime

\* the loop of the handler over data.get("data", []): an entry without a
\* timestamp is skipped
TimeData(posted) ==
    LET stamped == SelectSeq(posted, HasTimestamp)
    IN  [i \in DOMAIN stamped |->
            TimeDataDto(FloorTo(QuarterHour, stamped[i].timestamp),
                        stamped[i].net_power)]

TimeDataInterpolatedRangeDto(interpolation_method, data) ==
    [interpolation_method |-> interpolation_method, data |-> data]

ToDfRaised == [raised |-> TRUE, index |-> <<>>, value |-> <<>>]
DataFrame(index, value) == [raised |-> FALSE, index |-> index, value |-> value]

TimestampsOf(data) == {data[i].timestamp : i \in DOMAIN data}

\* set_index("timestamp") gives an index with repeated labels
HasDuplicates(data) == Cardinality(TimestampsOf(data)) < Len(data)

\* resample(freq): the bin edges from the first to the last timestamp
Bins(data, freq) ==
    LET lo == FloorTo(freq, SetMin(TimestampsOf(data)))
        hi == FloorTo(freq, SetMax(TimestampsOf(data)))
    IN  [k \in 1..((hi - lo) \div freq + 1) |-> lo + (k - 1) * freq]

\* the upsampling reindex: a bin holds the sample stamped at its edge, or NaN
AsFreq(data, index) ==
    [k \in DOMAIN index |->
        IF index[k] \in TimestampsOf(data)
        THEN Known(data[CHOOSE i \in DOMAIN data :
                            data[i].timestamp = index[k]].value)
        ELSE Unknown]

ValidBefore(column, k) == {i \in 1..(k - 1) : column[i].known}
ValidAfter(column, k) == {j \in (k + 1)..Len(column) : column[j].known}

\* ffill(): a NaN takes the last valid value before it
Ffill(column) ==
    [k \in DOMAIN column |->
        IF column[k].known \/ ValidBefore(column, k) = {}
        THEN column[k]
        ELSE column[SetMax(ValidBefore(column, k))]]

\* a step function in place of the straight line
Interpolate_hold(interpolation_method, column) == Ffill(column)

\* interpolate("linear"): the rows are taken as equally spaced; a NaN before
\* the first valid value stays, one after the last takes the last value
Interpolate(interpolation_method, column) ==
    [k \in DOMAIN column |->
        IF column[k].known \/ ValidBefore(column, k) = {}
        THEN column[k]
        ELSE IF ValidAfter(column, k) = {}
        THEN column[SetMax(ValidBefore(column, k))]
        ELSE LET i == SetMax(ValidBefore(column, k))
                 j == SetMin(ValidAfter(column, k))
             IN  Known(column[i].value
                       + ((column[j].value - column[i].value) * (k - i))
                           \div (j - i))]

\* a resample that gave an empty frame for an empty one
EmptyIndex_frame == DataFrame(<<>>, <<>>)

\* resample on the index of an empty frame, which is no DatetimeIndex,
\* raises TypeError
EmptyIndex == ToDfRaised

to_df(self, freq) ==
    IF Len(self.data) = 0
    THEN EmptyIndex
    ELSE IF HasDuplicates(self.data)
    THEN ToDfRaised     \* cannot reindex on an axis with duplicate labels
    ELSE LET index == Bins(self.data, freq)
         IN  DataFrame(index,
                       Ffill(Interpolate(self.interpolation_method,
                                         AsFreq(self.data, index))))

\* the minute of a posted entry, or no timestamp
PostedMinutes == {NoTime, 0, 7, 15, 30, 45, 60}
PowerValues == {-40, 0, 100}
Posted ==
    UNION {[1..n -> [timestamp : PostedMinutes, net_power : PowerValues]] :
              n \in 0..MaxSamples}

NoDto == TimeDataInterpolatedRangeDto("", <<>>)
NoFrame == DataFrame(<<>>, <<>>)

ToDf(posted) ==
    /\ dto = NoDto
    /\ dto' = TimeDataInterpolatedRangeDto("linear", TimeData(posted))
    /\ input_df' = to_df(dto', QuarterHour)
    \* lines 218 and 263 are outside the try: an exception of to_df leaves
    \* the handler before the pricing service is called
    /\ simulated' = IF input_df'.raised THEN <<>> ELSE <<input_df'>>
    /\ UNCHANGED outsideDto

NextPost ==
    /\ dto # NoDto
    /\ dto' = NoDto
    /\ input_df' = NoFrame
    /\ simulated' = <<>>
    /\ UNCHANGED outsideDto

DtoIdle == dto = NoDto /\ input_df = NoFrame /\ simulated = <<>>

GridIdle ==
    /\ grid = {} /\ today = FirstDay /\ published = FALSE
    /\ job = NoJob /\ prevJob = NoJob /\ nRuns = 0

CacheIdle ==
    /\ CACHE = EmptyCache
    /\ now = StartTime
    /\ last = NoOp
    /\ prev = NoOp
    /\ nCalls = 0
    /\ flushedAt = NoTime

PriceIdle == request = NoRequest /\ response = NoResponse

CalcIdle == row = NoRow /\ breakdown = NoBreakdown

Init ==
    /\ CacheIdle
    /\ db = EmptyDb
    /\ PriceIdle
    /\ market = NoMarket
    /\ CalcIdle
    /\ GridIdle
    /\ DtoIdle

Next ==
    \/ \E c \in Calls : \E out \in FnOutcomes(c) : \E dt \in 0..MaxDuration :
            Call(c, out, dt)
    \/ ClearCacheJob
    \/ \E t \in Instants : Tick(t)

Spec == Init /\ [][Next]_vars

InitPrice ==
    /\ CacheIdle
    /\ db \in Databases
    /\ PriceIdle
    /\ market = NoMarket
    /\ CalcIdle
    /\ GridIdle
    /\ DtoIdle

NextPrice ==
    \/ \E service \in Services, start_date \in TestDates, end_date \in TestDates,
          freq \in Freqs :
            Request(service, start_date, end_date, freq)
    \/ Return

SpecPrice == InitPrice /\ [][NextPrice]_vars

InitCached ==
    /\ CacheIdle
    /\ db \in CachedDatabases
    /\ PriceIdle
    /\ market = NoMarket
    /\ CalcIdle
    /\ GridIdle
    /\ DtoIdle

NextCached ==
    \* get_monthly_price
    \/ \E c \in CachedRanges : CachedRequest(c, "MS")
    \/ \E out \in FnOutcomes("HouseTempC") : \E dt \in 0..MaxDuration :
            Call("HouseTempC", out, dt)
    \/ ClearCacheJob
    \/ \E t \in Instants : Tick(t)

SpecCached == InitCached /\ [][NextCached]_vars

InitCalc ==
    /\ CacheIdle
    /\ db = EmptyDb
    /\ PriceIdle
    /\ market \in Markets
    /\ CalcIdle
    /\ GridIdle
    /\ DtoIdle

NextCalc ==
    \/ \E calculation \in Calculations, timestamp \in RowStamps,
          c1 \in EnergyValues, c2 \in EnergyValues,
          i1 \in EnergyValues, i2 \in EnergyValues :
            CalculatePrice(Row(calculation, timestamp, c1, c2, i1, i2))
    \/ NextRow

SpecCalc == InitCalc /\ [][NextCalc]_vars

InitGrid ==
    /\ CacheIdle
    /\ db = EmptyDb
    /\ PriceIdle
    /\ market = NoMarket
    /\ CalcIdle
    /\ grid \in {{}} \cup {{FirstDay - gap} : gap \in 0..MaxGap}
    /\ today = FirstDay
    /\ published \in BOOLEAN
    /\ job = NoJob
    /\ prevJob = NoJob
    /\ nRuns = 0
    /\ DtoIdle

NextGrid == StartRun \/ Fetched \/ Failed \/ Midnight \/ Publish

SpecGrid == InitGrid /\ [][NextGrid]_vars

\* the event loop resumes a run whose await has completed
SpecGridFair == SpecGrid /\ WF_vars(Fetched \/ Failed)

InitDto ==
    /\ CacheIdle
    /\ db = EmptyDb
    /\ PriceIdle
    /\ market = NoMarket
    /\ CalcIdle
    /\ GridIdle
    /\ DtoIdle

NextDto ==
    \/ \E posted \in Posted : ToDf(posted)
    \/ NextPost

SpecDto == InitDto /\ [][NextDto]_vars

(***************************************************************************)
(* Claims about the TTL cache                                              *)
(***************************************************************************)
TwoCallsSameArgs ==
    /\ prev.op = "call" /\ ~prev.raised
    /\ last.op = "call" /\ last.call = prev.call

\* C1: a call followed by a second call with identical arguments less than
\* `seconds` after the first result was stored does not invoke the wrapped
\* function again and returns the same value; a call made more than
\* `seconds` after that store invokes the wrapped function again.
C1_OnceWithinTtl ==
    TwoCallsSameArgs =>
        /\ (last.start - prev.storedAt < Seconds(Fn(last.call)))
              => (~last.invoked /\ last.value = prev.value)
        /\ (last.start - prev.storedAt > Seconds(Fn(last.call)))
              => last.invoked

\* C2: when the wrapped function raises, the wrapper raises, CACHE is
\* exactly what it was before the call, and the next call with the same
\* arguments invokes the wrapped function again.
C2_RaiseLeavesCache ==
    /\ [][(nCalls' = nCalls + 1 /\ last'.fnRaised)
            => (last'.raised /\ CACHE' = CACHE)]_vars
    /\ [][(prev'.op = "call" /\ prev'.fnRaised /\ last'.op = "call"
            /\ last'.call = prev'.call) => last'.invoked]_vars

\* a call raised while CACHE still held an (expired or None) entry under its key
C2_Witness ==
    /\ last.op = "call" /\ last.fnRaised /\ last.raised
    /\ last.key \in DOMAIN CACHE

\* C3: clear_cache removes every entry whatever its age, so no value stored
\* before the flush is served after it; only the 15:00 job removes entries,
\* a wrapper call never does.
C3_FlushRemovesAll ==
    /\ [][(last' # last /\ last'.op = "clear") => DOMAIN CACHE' = {}]_vars
    /\ [][(nCalls' = nCalls + 1) => DOMAIN CACHE \subseteq DOMAIN CACHE']_vars
    /\ [][~(DOMAIN CACHE \subseteq DOMAIN CACHE')
            => (last'.op = "clear" /\ last' # last
                /\ now % SecondsPerDay = CronSecond)]_vars
    /\ [][(prev'.op = "clear" /\ last'.op = "call") => last'.invoked]_vars
    /\ [][(last'.op = "call" /\ ~last'.invoked /\ flushedAt' # NoTime)
            => last'.storedAt >= flushedAt']_vars

\* the flush dropped an entry that was still within its TTL, and the next
\* call for that key invoked the wrapped function
C3_Witness ==
    /\ prev.op = "clear" /\ last.op = "call" /\ last.invoked
    /\ last.key \in DOMAIN prev.dropped
    /\ IsFresh(prev.dropped[last.key], last.start, Seconds(Fn(last.call)))

\* C4: two calls that differ in the function or in an argument never map to
\* the same key, so a call never receives a value computed for another call.
C4_KeyIdentifiesCall ==
    /\ (prev.op = "call" /\ last.op = "call" /\ prev.call # last.call)
          => prev.key # last.key
    /\ (last.op = "call" /\ ~last.raised /\ last.value # None)
          => last.value.of = last.call

\* C18: an entry is served only while less than `seconds` have passed since
\* it was stored; a call made exactly `seconds` after the store invokes the
\* wrapped function and overwrites the entry.
C18_ServedStrictlyWithinTtl ==
    /\ (last.op = "call" /\ ~last.invoked)
          => last.start - last.storedAt < Seconds(Fn(last.call))
    /\ (/\ last.op = "call" /\ ~last.raised
        /\ CacheGet(CACHE, last.key)[1] # NoTime
        /\ last.start - CacheGet(CACHE, last.key)[1] = Seconds(Fn(last.call)))
          => (last.invoked /\ CacheGet(CACHE, last.key) = <<last.end, last.value>>)

\* C19: a call that misses stores (now, result) under its key whatever the
\* result is, None included, and the next call with the same arguments
\* within `seconds` of the store returns the stored value without invoking
\* the wrapped function.
C19_StoresAndServesEveryValue ==
    /\ [][(nCalls' = nCalls + 1 /\ last'.invoked /\ ~last'.fnRaised)
            => CacheGet(CACHE', last'.key) = <<last'.end, last'.value>>]_vars
    /\ [][(/\ nCalls' = nCalls + 1
           /\ last.op = "call" /\ last.invoked /\ ~last.fnRaised
           /\ last'.call = last.call
           /\ last'.start - last.storedAt < Seconds(Fn(last.call)))
            => (~last'.invoked /\ last'.value = last.value)]_vars

\* what the caller of get_aggregated_price sees
Output(r) == <<r.outcome, r.result>>

\* C16: a second get_aggregated_price call with the arguments of the first,
\* the stored readings being the same, has the output of the first, whether
\* it is served from the cache, recomputed after the entry expired, or
\* recomputed after a flush.
C16_SameOutputTwice ==
    [][(/\ request # NoRequest
        /\ request' = request
        /\ last'.op = "call" /\ last'.call \in CachedRanges
        /\ <<CACHE, last, prev>> # <<CACHE', last', prev'>>)
          => Output(response') = Output(response)]_vars

(***************************************************************************)
(* Claims about the tariff period resolution of get_aggregated_price       *)
(***************************************************************************)
\* the periods registered in a registry, whatever their year key
RegisteredPeriods(service) ==
    LET registry == price_calculation(service)
    IN  UNION {{registry[year][i] : i \in 1..Len(registry[year])} :
                  year \in DOMAIN registry}

Covered(service, d) ==
    \E p \in RegisteredPeriods(service) : p.calc_start <= d /\ d < p.calc_end

\* the dates a request can ask for that are in no registered period
Uncovered ==
    [service \in Services |->
        {d \in SetMin(TestDates)..SetMax(TestDates) : ~Covered(service, d)}]

UncoveredIn(service, start_date, end_date) ==
    {d \in Uncovered[service] : start_date <= d /\ d < end_date}

RangeCovered(service, start_date, end_date) ==
    UncoveredIn(service, start_date, end_date) = {}

Handled == request # NoRequest

InPeriod(call) ==
    /\ call.period.calc_start <= call.start_date
    /\ call.start_date <= call.end_date
    /\ call.end_date <= call.period.calc_end

NoData(call) ==
    \/ call.price.kind = "None"
    \/ call.price.kind = "frame" /\ call.price.buckets = <<>>

\* the timestamps of a frame increase strictly from row to row
StrictlyIncreasing(result) ==
    /\ \A i \in 1..Len(result) :
          /\ result[i].first <= result[i].last
          /\ \A j \in 1..Len(result[i].buckets) :
                /\ result[i].first <= result[i].buckets[j].timestamp
                /\ result[i].buckets[j].timestamp <= result[i].last
                /\ j > 1 => result[i].buckets[j - 1].timestamp
                                < result[i].buckets[j].timestamp
    /\ \A i \in 1..(Len(result) - 1) : result[i].last < result[i + 1].first

\* the rows of frame `a` followed by the rows of frame `b`
RECURSIVE RowsThen(_, _, _)
RowsThen(a, b, freq) ==
    IF b = <<>> THEN a
    ELSE IF a # <<>> /\ NextBin(freq, a[Len(a)].last) = b[1].first
    THEN RowsThen([a EXCEPT ![Len(a)] =
                      [first |-> @.first, last |-> b[1].last,
                       buckets |-> @.buckets \o b[1].buckets]],
                  Tail(b), freq)
    ELSE RowsThen(Append(a, b[1]), Tail(b), freq)

\* what the caller gets: a frame, None, or an exception
Returned(r) == [outcome |-> r.outcome, year |-> r.year, result |-> r.result]

\* what a caller gets who asks for [start, b) and then for [b, end) and
\* puts the two frames one after the other
Chained(a, b, freq) ==
    IF a.outcome \in {"raise", "ValueError"} THEN Returned(a)
    ELSE IF b.outcome \in {"raise", "ValueError"} THEN Returned(b)
    ELSE LET rows == RowsThen(a.result, b.result, freq)
         IN  [outcome |-> IF rows = <<>> THEN "None" ELSE "frame",
              year |-> 0, result |-> rows]

\* C5: a request for the single day [d, d + 1 day) with d in a registered
\* period invokes exactly one calculator, the one whose period contains d.
C5_OneCalculatorPerDay ==
    (/\ Handled
     /\ request.end_date = request.start_date + 1
     /\ Covered(request.service, request.start_date))
    => /\ Len(response.calls) = 1
       /\ response.calls[1].period.calc_start <= request.start_date
       /\ request.start_date < response.calls[1].period.calc_end

\* C6: for a range lying in registered periods the calculator calls are in
\* chronological order, pairwise disjoint, cover exactly [start_date,
\* end_date), split at every period boundary inside the range, and each
\* sub-range lies inside the period of its calculator.
C6_SubRangesPartitionRange ==
    (/\ Handled
     /\ response.outcome # "raise"
     /\ RangeCovered(request.service, request.start_date, request.end_date))
    => LET calls == response.calls
           n == Len(calls)
       IN  /\ n >= 1
           /\ calls[1].start_date = request.start_date
           /\ calls[n].end_date = request.end_date
           /\ \A i \in 1..(n - 1) : calls[i].end_date = calls[i + 1].start_date
           /\ \A i \in 1..n :
                /\ calls[i].period \in RegisteredPeriods(request.service)
                /\ InPeriod(calls[i])
           /\ \A p \in RegisteredPeriods(request.service) :
                (request.start_date < p.calc_end /\ p.calc_end < request.end_date)
                => /\ \E i \in 1..n : calls[i].end_date = p.calc_end
                   /\ \A i \in 1..n : ~(calls[i].start_date < p.calc_end
                                         /\ p.calc_end < calls[i].end_date)

\* a range over three periods, each of which contributed a sub-range
C6_Witness ==
    /\ Handled
    /\ RangeCovered(request.service, request.start_date, request.end_date)
    /\ response.outcome = "frame"
    /\ Cardinality({i \in 1..Len(response.calls) :
                      response.calls[i].start_date < response.calls[i].end_date}) >= 3

\* every row priced in a call lies in the period of the call's calculator
\* and was priced by that calculator
PricedInPeriod(call) ==
    \A j \in 1..Len(call.price.buckets) : \A priced \in call.price.buckets[j].sum :
        /\ priced.calculation = call.period.calculation
        /\ call.period.calc_start <= DayOf(priced.row)
        /\ DayOf(priced.row) < call.period.calc_end

\* C7: when some date of [start_date, end_date) is in no registered period
\* of the registry, the request fails with the error that names a year
\* without registration holding such a date, nothing is returned, and no
\* calculator was handed or priced a date outside its own period.
C7_UncoveredDateFails ==
    (/\ Handled
     /\ response.outcome # "raise"
     /\ ~RangeCovered(request.service, request.start_date, request.end_date))
    => /\ response.outcome = "ValueError"
       /\ response.result = <<>>
       /\ response.year \notin DOMAIN price_calculation(request.service)
       /\ \E d \in UncoveredIn(request.service, request.start_date, request.end_date) :
             YearOf(d) = response.year
       /\ \A i \in 1..Len(response.calls) :
             InPeriod(response.calls[i]) /\ PricedInPeriod(response.calls[i])

\* a request that priced rows of a registered period before it reached
\* the year without registration
C7_Witness ==
    /\ Handled
    /\ ~RangeCovered(request.service, request.start_date, request.end_date)
    /\ response.outcome = "ValueError"
    /\ \E i \in 1..Len(response.calls) : response.calls[i].price.buckets # <<>>

\* C8: no calculator is called with a zero-length sub-range.
C8_ZeroLengthSkipped ==
    Handled =>
        \A i \in 1..Len(response.calls) :
            response.calls[i].start_date # response.calls[i].end_date

\* the boundaries b between two adjacent registered periods that the
\* requested range spans
SpannedBoundaries ==
    {p.calc_end : p \in {p \in RegisteredPeriods(request.service) :
        /\ p.calc_start <= request.start_date
        /\ request.start_date < p.calc_end
        /\ p.calc_end < request.end_date
        /\ \E q \in RegisteredPeriods(request.service) :
              q.calc_start = p.calc_end /\ request.end_date <= q.calc_end}}

\* C9: for a range that spans two adjacent periods with boundary b, the
\* request gives what the request for [start, b) followed by the request
\* for [b, end) gives (the same rows in the same order, or the same
\* exception), and the timestamps of the rows increase strictly.
C9_SplitAtBoundary ==
    Handled =>
        \A b \in SpannedBoundaries :
            /\ Returned(response) =
                 Chained(get_aggregated_price(request.service, db,
                                              request.start_date, b, request.freq),
                         get_aggregated_price(request.service, db,
                                              b, request.end_date, request.freq),
                         request.freq)
            /\ StrictlyIncreasing(response.result)

\* both periods of the spanned range contributed rows to the frame
C9_Witness ==
    /\ Handled
    /\ response.outcome = "frame"
    /\ \E b \in SpannedBoundaries :
          /\ get_aggregated_price(request.service, db, request.start_date, b,
                                  request.freq).outcome = "frame"
          /\ get_aggregated_price(request.service, db, b, request.end_date,
                                  request.freq).outcome = "frame"

\* the non-empty frames the calculators returned, in call order
RECURSIVE NonEmptyRows(_, _, _)
NonEmptyRows(calls, i, freq) ==
    IF i = 0 THEN <<>>
    ELSE IF NoData(calls[i]) THEN NonEmptyRows(calls, i - 1, freq)
    ELSE RowsThen(NonEmptyRows(calls, i - 1, freq), <<Segment(calls[i].price)>>, freq)

\* C10: a request in registered periods whose calculators do not raise
\* returns None exactly when every sub-range yielded no data; a sub-range
\* without data does not fail the request and adds no rows; the rows of the
\* other sub-ranges are returned in chronological order.
C10_NoneIffNoData ==
    (/\ Handled
     /\ response.outcome # "raise"
     /\ RangeCovered(request.service, request.start_date, request.end_date))
    => /\ response.outcome \in {"None", "frame"}
       /\ response.outcome = "None"
            <=> \A i \in 1..Len(response.calls) : NoData(response.calls[i])
       /\ response.result =
            NonEmptyRows(response.calls, Len(response.calls), request.freq)
       /\ StrictlyIncreasing(response.result)

\* what the adapter returned for the sub-range of one calculator call
EnergyStats(call) ==
    get_aggregated_energy_consumption_injection(db, call.start_date, call.end_date)

ReturnedNoRows(energy_stats) ==
    energy_stats.kind \in {"None", "frame"} /\ energy_stats.index = {}

\* C17: a calculator's get_aggregated_price returns None exactly when the
\* adapter returned no rows for its sub-range; in that case it returns no
\* bucket (so none of zeros) and prices no row.
C17_NoneIffNoRows ==
    \A i \in 1..Len(response.calls) :
        LET call == response.calls[i]
        IN  /\ call.price.kind = "None" <=> ReturnedNoRows(EnergyStats(call))
            /\ ReturnedNoRows(EnergyStats(call)) => call.price.buckets = <<>>

\* a bucket label on the grid of freq: a full hour, a midnight, or the
\* midnight of the first day of a month
OnGrid(freq, b) ==
    CASE freq = "1h" -> b % 4 = 0
      [] freq = "1D" -> b % QuartersPerDay = 0
      [] freq = "MS" -> b % QuartersPerDay = 0 /\ MonthStart(DayOf(b)) = DayOf(b)

\* the breakdowns of the rows the adapter returned that fall in [b, next b)
RowsOfBucket(call, freq, b) ==
    {calculate_price(call.period.calculation, t) :
        t \in {u \in EnergyStats(call).index : b <= u /\ u < NextBin(freq, b)}}

AllBuckets(price) == UNION {price.buckets[j].sum : j \in 1..Len(price.buckets)}

\* C21: each output bucket of a calculator's get_aggregated_price holds the
\* sum over exactly the rows whose timestamp falls in the bucket (a sum is
\* kept as the set of its terms), no row is in two buckets, and the buckets
\* together hold every priced row, for the hourly, daily and monthly freq.
C21_BucketsSumTheirRows ==
    \A i \in 1..Len(response.calls) :
        LET call == response.calls[i]
            price == call.price
        IN  (price.kind = "frame" /\ price.buckets # <<>>) =>
              /\ \A j \in 1..Len(price.buckets) :
                    /\ OnGrid(request.freq, price.buckets[j].timestamp)
                    /\ price.buckets[j].sum
                          = RowsOfBucket(call, request.freq, price.buckets[j].timestamp)
                    /\ \A k \in 1..Len(price.buckets) :
                          k # j => price.buckets[j].sum \cap price.buckets[k].sum = {}
              /\ AllBuckets(price)
                    = {calculate_price(call.period.calculation, t) :
                          t \in EnergyStats(call).index}

\* a daily or monthly bucket that sums two rows, and an hourly frame that
\* keeps two rows of one day apart
C21_Witness ==
    /\ Handled
    /\ \E i \in 1..Len(response.calls) :
          LET price == response.calls[i].price
          IN  /\ price.kind = "frame"
              /\ \/ /\ request.freq \in {"1D", "MS"}
                    /\ \E j \in 1..Len(price.buckets) :
                          Cardinality(price.buckets[j].sum) = 2
                 \/ /\ request.freq = "1h"
                    /\ Len(price.buckets) = 2
                    /\ DayOf(price.buckets[1].timestamp)
                          = DayOf(price.buckets[2].timestamp)

(***************************************************************************)
(* Claims about calculate_price                                            *)
(***************************************************************************)
\* C11: in every breakdown calculate_price returns, the value stored under
\* total is the values stored under fixed, peak, distribution and
\* consumption added up, less the value stored under injection.
C11_TotalOfStoredFields ==
    breakdown.kind = "Series" =>
        breakdown.total = breakdown.fixed + breakdown.peak + breakdown.distribution
                          + breakdown.consumption - breakdown.injection

ZeroRow ==
    /\ row # NoRow
    /\ row.consumption_rate1 = 0 /\ row.consumption_rate2 = 0
    /\ row.injection_rate1 = 0 /\ row.injection_rate2 = 0

RowYear == YearOf(DayOf(row.timestamp))
RowMonth == MonthOf(DayOf(row.timestamp))

AllKnown(mkt) ==
    /\ mkt.monthly_belpex.known /\ mkt.belpex.known
    /\ get_invoice_peak(mkt, RowYear, RowMonth).known

\* C12: for a row whose four energy fields are zero, whatever the
\* calculator and the timestamp, calculate_price gives consumption = 0,
\* injection = 0, distribution = 0 and total = fixed + peak (and it does
\* give a breakdown when the market and peak queries have values).
C12_ZeroRow ==
    ZeroRow =>
        /\ AllKnown(market) => breakdown.kind = "Series"
        /\ breakdown.kind = "Series" =>
              /\ breakdown.consumption = 0
              /\ breakdown.injection = 0
              /\ breakdown.distribution = 0
              /\ breakdown.total = breakdown.fixed + breakdown.peak

\* a zero row priced with a fixed and a peak component to pay
C12_Witness ==
    /\ ZeroRow
    /\ breakdown.kind = "Series"
    /\ breakdown.fixed > 0 /\ breakdown.peak > 0
    /\ breakdown.total = breakdown.fixed + breakdown.peak

\* the monthly peaks the window of the priced row holds, each at least
\* the minimum
WindowPeaks ==
    {Max(market.monthly_peak[m].value, MinimumPeak) :
        m \in PeakRows(market, RowYear, RowMonth)}

\* the peak component is the yearly price per kW on the value
\* get_invoice_peak returned, per quarter hour: no minimum is applied to it
PeakComponentOf(invoice_peak) ==
    breakdown.kind = "Series" =>
        breakdown.peak =
            (get_distribution_price_per_kW_peak(row.calculation) * invoice_peak)
                \div (4 * (365 * 24 * 4 + (IF IsLeap(RowYear) THEN 24 * 4 ELSE 0)))

C13_ResumeAtFailedDay ==
    /\ (job.pc = "failed" /\ grid # {}) =>
          /\ get_last_grid_price(grid).value < job.failed_at
          /\ \A i \in 1..Len(job.saved) : job.saved[i] < job.failed_at
          /\ job.saved # <<>> =>
                get_last_grid_price(grid).value = job.saved[Len(job.saved)]
    /\ (prevJob.pc = "failed" /\ job.pc # "idle" /\ job.last_grid_price.known) =>
          /\ job.last_grid_price.value < prevJob.failed_at
          /\ job.requested # <<>>
          /\ job.requested[1] = prevJob.failed_at

\* a backfill that failed on its third day or later, with days still to
\* go, and the run after it
C13_Witness ==
    /\ prevJob.pc = "failed"
    /\ Len(prevJob.saved) >= 2
    /\ prevJob.failed_at < prevJob.date_to
    /\ job.requested # <<>>
    /\ job.requested[1] = prevJob.failed_at
    /\ job.requested[1] > prevJob.date_from

\* the day a run starts with, as lines 31-35 derive it from what the run read
FirstDayOf(run) ==
    IF run.last_grid_price.known THEN run.last_grid_price.value + 1
    ELSE run.started - BackfillDays

DayByDay(run) ==
    run.pc # "idle" =>
        /\ run.date_from = FirstDayOf(run)
        /\ run.date_to = run.started + 1
        /\ \A i \in 1..Len(run.requested) : run.requested[i] = run.date_from + i - 1
        /\ Len(run.saved) <= Len(run.requested)
        /\ Len(run.requested) <= Len(run.saved) + 1
        /\ \A i \in 1..Len(run.saved) : run.saved[i] = run.requested[i]
        /\ run.pc = "done" =>
              /\ run.saved = run.requested
              /\ Len(run.requested) = Max(0, run.date_to - run.date_from + 1)

\* C14 (as the code has it): a run requests one day per request, in
\* ascending order, for every day from the day after the last stored day
\* (from 40 days before today when nothing is stored) through tomorrow,
\* saves each day before it requests the next, and ends.
C14_DayAfterLastStoredThroughTomorrow ==
    /\ [](DayByDay(job))
    /\ (job.pc = "fetch") ~> (job.pc \in {"done", "failed"})

\* a run over several days that ended without a failure
C14_Witness ==
    /\ job.pc = "done"
    /\ job.last_grid_price.known
    /\ Len(job.saved) >= 3
    /\ job.saved[Len(job.saved)] = job.started + 1

\* C14 (as stated): the days requested start with the last stored day.
C14_FromLastStoredDay ==
    (job.pc = "done" /\ job.last_grid_price.known) =>
        /\ job.requested # <<>>
        /\ job.requested[1] = job.last_grid_price.value


(***************************************************************************)
(* Claims about TimeDataInterpolatedRangeDto.to_df                         *)
(***************************************************************************)
Hour == 4 * QuarterHour

FirstSample == SetMin(TimestampsOf(dto.data))
LastSample == SetMax(TimestampsOf(dto.data))

TwoSamplesOneHourApart ==
    /\ dto.interpolation_method = "linear"
    /\ Len(dto.data) = 2
    /\ LastSample - FirstSample = Hour

ValueAt(timestamp) ==
    dto.data[CHOOSE i \in DOMAIN dto.data :
                 dto.data[i].timestamp = timestamp].value

SamplesAt(t) == {i \in DOMAIN dto.data : dto.data[i].timestamp = t}

SharedBuckets == {t \in TimestampsOf(dto.data) : Cardinality(SamplesAt(t)) > 1}

\* C22: when several samples share a bucket after the flooring to the
\* quarter hour, to_df returns a frame, and the bucket holds the value of the
\* last of these samples in input order.
C22_LastSampleOfBucket ==
    (dto # NoDto /\ SharedBuckets # {}) =>
        /\ ~input_df.raised
        /\ \A t \in SharedBuckets :
              \E k \in DOMAIN input_df.index :
                  /\ input_df.index[k] = t
                  /\ input_df.value[k] = Known(dto.data[SetMax(SamplesAt(t))].value)

\* C23: to_df on an empty list of samples raises and returns no frame, and
\* the handler does not hand a frame to the pricing service.
C23_EmptyInputRaises ==
    (dto # NoDto /\ Len(dto.data) = 0) =>
        /\ input_df.raised
        /\ input_df.index = <<>> /\ input_df.value = <<>>
        /\ simulated = <<>>

\* a post whose only entry has no timestamp, so that the list is empty
C23_Witness ==
    /\ dto # NoDto
    /\ dto.interpolation_method = "linear"
    /\ Len(dto.data) = 0
    /\ input_df = ToDfRaised
    /\ simulated = <<>>

\* the periods registered for one year are half-open ranges inside the year,
\* no two of them share a date, and every date of the year is in one of them
PartitionsYear(periods, year) ==
    /\ \A i \in DOMAIN periods :
          /\ Date(year, 1, 1) <= periods[i].calc_start
          /\ periods[i].calc_start < periods[i].calc_end
          /\ periods[i].calc_end <= Date(year + 1, 1, 1)
    /\ \A i, j \in DOMAIN periods :
          i # j => \/ periods[i].calc_end <= periods[j].calc_start
                   \/ periods[j].calc_end <= periods[i].calc_start
    /\ \A d \in Date(year, 1, 1)..(Date(year + 1, 1, 1) - 1) :
          \E i \in DOMAIN periods :
              periods[i].calc_start <= d /\ d < periods[i].calc_end

RegistriesPartitionYears ==
    \A service \in Services :
        \A year \in DOMAIN price_calculation(service) :
            PartitionsYear(price_calculation(service)[year], year)

\* C25: in each registry the periods of a year key are pairwise disjoint
\* half-open ranges inside that year that cover it without a gap, and a
\* request resolves its periods in the registry of its own service only.
C25_RegistriesPartitionYears ==
    /\ RegistriesPartitionYears
    /\ \A k \in DOMAIN response.calls :
          LET period == response.calls[k].period
              registry == price_calculation(request.service)
          IN  \E year \in DOMAIN registry :
                  \E i \in DOMAIN registry[year] : registry[year][i] = period

\* a request on the alternative service over the tariff change of 2026 that
\* resolved the two periods of its own registry, neither of which is in the
\* standard registry
C25_Witness ==
    /\ request.service = "alternative_price"
    /\ Len(response.calls) = 2
    /\ response.calls[1].period = AlternativeCalculations[2026][1]
    /\ response.calls[2].period = AlternativeCalculations[2026][2]
    /\ \A k \in {1, 2} : \A i \in {1, 2} :
          response.calls[k].period # StandardCalculations[2026][i]

\* C26: the request fails with the missing-year error only if some date of
\* [start_date, end_date) is in no registered period; a range whose exclusive
\* end_date is January 1 of an unregistered year does not fail with it.
C26_MissingYearOnlyIfUncovered ==
    (Handled /\ response.outcome = "ValueError")
    => ~RangeCovered(request.service, request.start_date, request.end_date)

\* the series that have a row in the sub-range of one calculator call
NonEmptySeries(call) ==
    {series \in AllSeries : Points(db, series, call.start_date, call.end_date) # {}}

\* C27: the adapter returns None when none of the four series has a row in
\* [start, end); for every other combination of empty and non-empty series it
\* returns rows without raising, and a bucket is among the rows only if every
\* non-empty series has it.
C27_RowsOfNonEmptySeries ==
    \A i \in DOMAIN response.calls :
        LET call == response.calls[i]
            energy_stats == EnergyStats(call)
        IN  /\ NonEmptySeries(call) = {} => energy_stats.kind = "None"
            /\ NonEmptySeries(call) # {} =>
                  /\ energy_stats.kind = "frame"
                  /\ \A t \in energy_stats.index :
                        \A series \in NonEmptySeries(call) :
                            t \in Points(db, series, call.start_date, call.end_date)

\* the rows of the requested range: the timestamps at which all four series
\* have a value
RowsInRange ==
    {t \in UNION {db[series] : series \in AllSeries} :
        /\ \A series \in AllSeries : t \in db[series]
        /\ request.start_date * QuartersPerDay <= t
        /\ t < request.end_date * QuartersPerDay}

\* the breakdowns that the calculator calls of the request summed into their
\* buckets: the call, the bucket, the calculator and the row
Pricings ==
    UNION {UNION {{[call |-> i, bucket |-> j,
                    calculation |-> priced.calculation, row |-> priced.row] :
                        priced \in response.calls[i].price.buckets[j].sum} :
                    j \in DOMAIN response.calls[i].price.buckets} :
              i \in DOMAIN response.calls}

\* C28: within one request on a range lying in registered periods, every row
\* with timestamp in [start_date, end_date) is priced exactly once, by the
\* calculator of the period that holds its day: by no two calculators, in no
\* two buckets or calls, and none is left out.
C28_EachRowPricedOnce ==
    (/\ Handled
     /\ RangeCovered(request.service, request.start_date, request.end_date))
    => \A t \in RowsInRange :
          /\ Cardinality({priced \in Pricings : priced.row = t}) = 1
          /\ \A priced \in Pricings :
                priced.row = t =>
                    LET period == response.calls[priced.call].period
                    IN  /\ priced.calculation = period.calculation
                        /\ period.calc_start <= DayOf(t)
                        /\ DayOf(t) < period.calc_end

\* the call that has just returned was served from the cache
ServedNow == nCalls' = nCalls + 1 /\ ~last'.invoked

\* C29: a value returned without invoking the wrapped function is the entry
\* of the call's key, stored not more than `seconds` before the call and not
\* before the most recent clear_cache; an entry is only ever written by a
\* call for its key that completed, with the time at which its computation
\* finished.
C29_BoundedStaleness ==
    /\ [][ServedNow =>
            /\ last'.key \in DOMAIN CACHE
            /\ CACHE[last'.key] = <<last'.storedAt, last'.value>>
            /\ last'.storedAt <= last'.start
            /\ last'.start - last'.storedAt <= Seconds(Fn(last'.call))
            /\ flushedAt # NoTime => last'.storedAt >= flushedAt]_vars
    /\ [][\A key \in DOMAIN CACHE' :
            CacheGet(CACHE, key) # CACHE'[key] =>
                /\ nCalls' = nCalls + 1
                /\ last'.invoked /\ ~last'.raised
                /\ last'.key = key
                /\ last'.end = now'
                /\ CACHE'[key] = <<last'.end, last'.value>>]_vars

\* a call served six seconds after it started the call that stored the
\* entry, which took one second: five seconds after the store
C29_Witness ==
    /\ last.op = "call" /\ ~last.invoked
    /\ prev.op = "call" /\ prev.invoked /\ prev.key = last.key
    /\ prev.end = prev.start + 1
    /\ last.storedAt = prev.end
    /\ last.value = prev.value
    /\ last.start = prev.start + 1 + Seconds(Fn(last.call))

\* C30: a day that the previous run fetched and saved is not fetched again:
\* the first day a run requests is later than every day the run before it
\* saved, and a run that follows a run without failure on the same calendar
\* day requests nothing, also when a saved day held no price points.
C30_SavedDayNotFetchedAgain ==
    (prevJob.pc \in {"done", "failed"} /\ job.pc # "idle") =>
        /\ job.requested # <<>> =>
              \A i \in DOMAIN prevJob.saved : prevJob.saved[i] < job.requested[1]
        /\ (prevJob.pc = "done" /\ job.started = prevJob.started) =>
              job.requested = <<>>

====
